---- MODULE Spec2Model ----
(***************************************************************************)
(* The scheduler of talps-manager (src/src/manager.rs) with its ready      *)
(* queue (src/src/spmc_queue.rs): one caller thread owning the TaskManager *)
(* (submit/run/stop/shutdown take &mut self, so calls never overlap each   *)
(* other) and degree_of_parallel worker threads spawned by new().          *)
(*                                                                         *)
(* A task handle (Arc<RwLock<Task>>) is named by the task's id.  As in the *)
(* repository's tests the caller numbers its tasks 0, 1, 2, ... in the     *)
(* order it submits them, with in_degree 0 and next empty.                 *)
(***************************************************************************)
EXTENDS Integers, Sequences, FiniteSets, TLC

\* ---------------------------------------------------------------- bounds
\* degree_of_parallel of TaskManager::new
NWorkers == 2
\* how many tasks the caller of Spec submits
MaxTasks == 2
\* longest Task.depend the caller of Spec builds
MaxDeps == 1

\* how many values the clients of QueueSpec push
MaxPush == 3

Workers == 1..NWorkers
\* The thread that owns the TaskManager and calls submit/run/stop/shutdown
CallerT == 0
\* Task ids: those the callers below submit, and ids never submitted
Ids == 0..(MaxTasks + 1)
NoTask == 0 - 1

\* Task.depend: Vec<usize>, any ids in any order, repeats allowed
DependLists == UNION {[1..n -> Ids] : n \in 0..MaxDeps}

VARIABLES
    status,      \* TaskManager.status: Mutex<ManagerStatus>
    task_map,    \* TaskManager.task_map: the ids that are keys of the BTreeMap
    ready_q,     \* TaskManager.ready_q.block_queue: VecDeque of task handles
    tasks,       \* the Task behind each handle: in_degree, next
    task_id,     \* number of Task values submit has accepted so far
    poisoned,    \* task_map's mutex is poisoned (a thread panicked holding it)
    wpc,         \* each worker thread's position in its closure
    status_v,    \* each worker's local status_v
    cur,         \* each worker's popped handle (`task` of line 71), or NoTask
    snap,        \* each worker's clone of the task: its next list (line 72)
    cpc,         \* the caller's position inside the call it is executing
    cdeps,       \* is_ready: the part of task.depend not yet examined
    c_ready,     \* is_ready: the local is_ready flag
    op,          \* the call last issued by the caller
    pre,         \* the status that call read on entry
    ret,         \* its result: "Ok", "Err", or "pending" while it executes
    runs,        \* per handle, how many of its executions have finished
    unfinished,  \* per handle, the dependency ids that were submitted and
                 \* not yet executed when the handle was submitted
    absent,      \* how many dependency ids the is_ready loop of the latest
                 \* submit looked up and did not find in task_map
    pushed,      \* the values given to SPMCQueue::push by the queue's own
                 \* clients (QueueSpec), in the order the pushes took effect
    popped,      \* the values SPMCQueue::pop returned to them, in order
    map_owner,   \* the thread holding task_map's mutex across steps
                 \* (LockSpec): a worker, CallerT for the caller, or NoTask
                 \* when it is free
    wready       \* each worker's ready_list of lines 84-98 (LockSpec)

vars == <<status, task_map, ready_q, tasks, task_id, poisoned, wpc, status_v,
          cur, snap, cpc, cdeps, c_ready, op, pre, ret, runs, unfinished,
          absent, pushed, popped, map_owner,
          wready>>

shared == <<status, task_map, ready_q, tasks, task_id, poisoned, map_owner>>
workerv == <<wpc, status_v, cur, snap, wready>>
callerv == <<cpc, cdeps, c_ready, op, pre, ret>>
qhist == <<pushed, popped>>
histv == <<runs, unfinished, absent, qhist>>

\* Task as every caller in the repository builds it: in_degree 0, next
\* empty, test true.  depend is read by is_ready only, and is kept in cdeps
\* while submit runs.
NewTask ==
    [in_degree |-> 0, next |-> <<>>]

\* TaskManager::new: status Stopped, empty queue and map, workers spawned
Init ==
    /\ status = "Stopped"
    /\ task_map = {}
    /\ ready_q = <<>>
    /\ tasks = [i \in Ids |-> NewTask]
    /\ task_id = 0
    /\ poisoned = FALSE
    /\ wpc = [w \in Workers |-> "start"]
    /\ status_v = [w \in Workers |-> "Stopped"]
    /\ cur = [w \in Workers |-> NoTask]
    /\ snap = [w \in Workers |-> <<>>]
    /\ cpc = "idle"
    /\ cdeps = <<>>
    /\ c_ready = TRUE
    /\ op = "new"
    /\ pre = "Stopped"
    /\ ret = "Ok"
    /\ runs = [i \in Ids |-> 0]
    /\ unfinished = [i \in Ids |-> {}]
    /\ absent = 0
    /\ pushed = <<>>
    /\ popped = <<>>
    /\ map_owner = NoTask
    /\ wready = [w \in Workers |-> <<>>]

Range(s) == {s[i] : i \in DOMAIN s}

\* ------------------------------------------------------------ ready queue
\* Workers blocked in SPMCQueue::pop's cond_var.wait
QWaiters == {w \in Workers : wpc[w] = "popwait"}

\* SPMCQueue::push does notify_one per pushed entry: k pushes wake k of the
\* blocked consumers (all of them when fewer are blocked)
WakeSets(k) ==
    {S \in SUBSET QWaiters :
        Cardinality(S) = IF k < Cardinality(QWaiters) THEN k
                         ELSE Cardinality(QWaiters)}

\* ------------------------------------------------------------ the workers
\* Lines 63-70: where the loop goes for a value of status_v
AfterStatus(sv) ==
    IF sv = "Shutdown" THEN "done"
    ELSE IF sv = "Stopped" THEN "lockwait"
    ELSE "pop"

\* Line 62: let mut status_v = *status.lock().unwrap()
WStart(w) ==
    /\ wpc[w] = "start"
    /\ status_v' = [status_v EXCEPT ![w] = status]
    /\ wpc' = [wpc EXCEPT ![w] = AfterStatus(status)]
    /\ UNCHANGED <<shared, cur, snap, wready, callerv, histv>>

\* Line 65: status.lock() and condvar.wait(guard): the thread blocks
WLockWait(w) ==
    /\ wpc[w] = "lockwait"
    /\ wpc' = [wpc EXCEPT ![w] = "waiting"]
    /\ UNCHANGED <<shared, status_v, cur, snap, wready, callerv, histv>>

\* Line 65: wait returns with the lock held; status_v = *guard
WWake(w) ==
    /\ wpc[w] = "woken"
    /\ status_v' = [status_v EXCEPT ![w] = status]
    /\ wpc' = [wpc EXCEPT ![w] = AfterStatus(status)]
    /\ UNCHANGED <<shared, cur, snap, wready, callerv, histv>>

\* Condvar::wait may return without a notification (either condvar)
WSpurious(w) ==
    /\ \/ /\ wpc[w] = "waiting"
          /\ wpc' = [wpc EXCEPT ![w] = "woken"]
       \/ /\ wpc[w] = "popwait"
          /\ wpc' = [wpc EXCEPT ![w] = "pop"]
    /\ UNCHANGED <<shared, status_v, cur, snap, wready, callerv, histv>>

\* pop returning the oldest entry without removing it (front() for
\* pop_front())
WPopPeek(w) ==
    /\ wpc[w] = "pop"
    /\ IF ready_q = <<>>
       THEN /\ wpc' = [wpc EXCEPT ![w] = "popwait"]
            /\ UNCHANGED cur
       ELSE /\ cur' = [cur EXCEPT ![w] = Head(ready_q)]
            /\ wpc' = [wpc EXCEPT ![w] = "clone"]
    /\ UNCHANGED <<status, task_map, ready_q, tasks, task_id, poisoned,
                   map_owner, status_v, snap, wready, callerv, histv>>

\* Line 71 and SPMCQueue::pop: wait while empty, else pop_front
WPop(w) ==
    /\ wpc[w] = "pop"
    /\ IF ready_q = <<>>
       THEN /\ wpc' = [wpc EXCEPT ![w] = "popwait"]
            /\ UNCHANGED <<ready_q, cur>>
       ELSE /\ cur' = [cur EXCEPT ![w] = Head(ready_q)]
            /\ ready_q' = Tail(ready_q)
            /\ wpc' = [wpc EXCEPT ![w] = "clone"]
    /\ UNCHANGED <<status, task_map, tasks, task_id, poisoned, map_owner,
                   status_v, snap, wready, callerv, histv>>

\* submit holds the new task's write lock from line 120 until it returns
WriteLocked(h) ==
    cpc \in {"is_ready", "maplocked", "insert", "unlock"} /\ task_id = h

\* Line 72: task.read().unwrap().clone(), then "task is RUNNING"
WClone(w) ==
    /\ wpc[w] = "clone"
    /\ ~WriteLocked(cur[w])
    /\ snap' = [snap EXCEPT ![w] = tasks[cur[w]].next]
    /\ wpc' = [wpc EXCEPT ![w] = "exec"]
    /\ UNCHANGED <<shared, status_v, cur, wready, callerv, histv>>

\* Lines 75-77 when task_test_run fails: `?` returns the error from the
\* closure and the thread ends
WExecFail(w) ==
    /\ wpc[w] = "exec"
    /\ wpc' = [wpc EXCEPT ![w] = "failed"]
    /\ UNCHANGED <<shared, status_v, cur, snap, wready, callerv, histv>>

\* The loop of lines 85-95 pushing a dependent at every decrement, without
\* the test of line 90
RECURSIVE ReleaseEager(_, _, _, _, _)
ReleaseEager(nxt, map, tk, q, rl) ==
    IF nxt = <<>>
    THEN [tasks |-> tk, q |-> q, ready_list |-> rl, panic |-> FALSE]
    ELSE LET n == Head(nxt) IN
         IF n \notin map
         THEN ReleaseEager(Tail(nxt), map, tk, q, rl)
         ELSE IF tk[n].in_degree = 0
         THEN [tasks |-> tk, q |-> q, ready_list |-> rl, panic |-> TRUE]
         ELSE LET tk2 == [tk EXCEPT ![n].in_degree = @ - 1] IN
              ReleaseEager(Tail(nxt), map, tk2, Append(q, n), Append(rl, n))

\* Lines 85-95: the loop over the clone's next list, under the map lock
RECURSIVE Release(_, _, _, _, _)
Release(nxt, map, tk, q, rl) ==
    IF nxt = <<>>
    THEN [tasks |-> tk, q |-> q, ready_list |-> rl, panic |-> FALSE]
    ELSE LET n == Head(nxt) IN
         IF n \notin map
         THEN Release(Tail(nxt), map, tk, q, rl)
         ELSE IF tk[n].in_degree = 0
         THEN [tasks |-> tk, q |-> q, ready_list |-> rl, panic |-> TRUE]
         ELSE LET tk2 == [tk EXCEPT ![n].in_degree = @ - 1] IN
              IF tk2[n].in_degree = 0
              THEN Release(Tail(nxt), map, tk2, Append(q, n), Append(rl, n))
              ELSE Release(Tail(nxt), map, tk2, q, rl)

\* Lines 96-98: for ready in ready_list { map.remove(&ready) }
RemoveReady(map, rl) ==
    map \ Range(rl)

\* Lines 75-99 when task_test_run succeeds: the execution ends ("task is
\* DONE") and the completion update runs under the task_map lock
WComplete(w) ==
    /\ wpc[w] = "exec"
    /\ runs' = [runs EXCEPT ![cur[w]] = @ + 1]
    /\ IF poisoned
       THEN /\ wpc' = [wpc EXCEPT ![w] = "panicked"]
            /\ UNCHANGED <<task_map, ready_q, tasks, poisoned, cur, snap>>
       ELSE LET map1 == task_map \ {cur[w]}
                r == Release(snap[w], map1, tasks, ready_q, <<>>)
            IN /\ tasks' = r.tasks
               /\ ready_q' = r.q
               /\ poisoned' = r.panic
               /\ task_map' = IF r.panic THEN map1
                              ELSE RemoveReady(map1, r.ready_list)
               /\ \E S \in WakeSets(Len(r.ready_list)) :
                    wpc' = [x \in Workers |->
                              IF x = w
                              THEN IF r.panic THEN "panicked" ELSE "pop"
                              ELSE IF x \in S THEN "pop" ELSE wpc[x]]
               /\ cur' = [cur EXCEPT ![w] = NoTask]
               /\ snap' = [snap EXCEPT ![w] = <<>>]
    /\ UNCHANGED <<status, task_id, map_owner, status_v, wready, callerv,
                   unfinished, absent, qhist>>

Worker(w) ==
    \/ WStart(w)
    \/ WLockWait(w)
    \/ WWake(w)
    \/ WPop(w)
    \/ WClone(w)
    \/ WExecFail(w)
    \/ WComplete(w)

\* ------------------------------------------------------------- the caller
\* is_ready as it would behave if submit had inserted the task before the
\* readiness check: the task's own id is found
IsReadyDepFindsSelf(tk, map, t, d) ==
    IF d \in map \cup {t}
    THEN [tk EXCEPT ![t].in_degree = @ + 1,
                    ![d].next = Append(@, t)]
    ELSE tk

\* is_ready registering the edge without the in_degree += 1 of line 151
IsReadyDepNoCount(tk, map, t, d) ==
    IF d \in map
    THEN [tk EXCEPT ![d].next = Append(@, t)]
    ELSE tk

\* is_ready counting a dependency that task_map does not hold
IsReadyDepCountsAbsent(tk, map, t, d) ==
    IF d \in map
    THEN [tk EXCEPT ![t].in_degree = @ + 1,
                    ![d].next = Append(@, t)]
    ELSE [tk EXCEPT ![t].in_degree = @ + 1]

\* Lines 149-157: one dependency of is_ready, under the task_map lock
IsReadyDep(tk, map, t, d) ==
    IF d \in map
    THEN [tk EXCEPT ![t].in_degree = @ + 1,
                    ![d].next = Append(@, t)]
    ELSE tk

\* submit without the Shutdown arm of lines 138-140
SubmitIgnoresShutdown(deps) ==
    /\ cpc = "idle"
    /\ op' = "submit"
    /\ pre' = status
    /\ ret' = "pending"
    /\ tasks' = [tasks EXCEPT ![task_id] = NewTask]
    /\ cpc' = "is_ready"
    /\ cdeps' = deps
    /\ c_ready' = TRUE
    /\ unfinished' = [unfinished EXCEPT ![task_id] =
           {d \in Range(deps) : d < task_id /\ runs[d] = 0}]
    /\ absent' = 0
    /\ UNCHANGED <<status, task_map, ready_q, task_id, poisoned, map_owner,
                   workerv, runs, qhist>>

\* Lines 115-120 and 138-140: submit reads the status; Shutdown is an error
Submit(deps) ==
    /\ cpc = "idle"
    /\ op' = "submit"
    /\ pre' = status
    /\ IF status = "Shutdown"
       THEN /\ ret' = "Err"
            /\ UNCHANGED <<tasks, cpc, cdeps, c_ready, unfinished, absent>>
       ELSE /\ ret' = "pending"
            /\ tasks' = [tasks EXCEPT ![task_id] = NewTask]
            /\ cpc' = "is_ready"
            /\ cdeps' = deps
            /\ c_ready' = TRUE
            /\ unfinished' = [unfinished EXCEPT ![task_id] =
                   {d \in Range(deps) : d < task_id /\ runs[d] = 0}]
            /\ absent' = 0
    /\ UNCHANGED <<status, task_map, ready_q, task_id, poisoned, map_owner,
                   workerv, runs, qhist>>

\* Lines 149-158: the loop of is_ready, one dependency per step
SubmitDep ==
    /\ cpc = "is_ready"
    /\ cdeps # <<>>
    /\ IF poisoned
       THEN /\ cpc' = "panicked"
            /\ UNCHANGED <<tasks, cdeps, c_ready, absent>>
       ELSE /\ tasks' = IsReadyDep(tasks, task_map, task_id, Head(cdeps))
            /\ c_ready' = (c_ready /\ Head(cdeps) \notin task_map)
            /\ cdeps' = Tail(cdeps)
            /\ absent' = IF Head(cdeps) \in task_map THEN absent
                          ELSE absent + 1
            /\ UNCHANGED cpc
    /\ UNCHANGED <<status, task_map, ready_q, task_id, poisoned, map_owner,
                   workerv, op, pre, ret, runs, unfinished, qhist>>

\* submit pushing the task whatever is_ready returned
SubmitPushAlways ==
    /\ cpc = "is_ready"
    /\ cdeps = <<>>
    /\ ready_q' = Append(ready_q, task_id)
    /\ \E S \in WakeSets(1) :
         wpc' = [x \in Workers |-> IF x \in S THEN "pop" ELSE wpc[x]]
    /\ cpc' = "insert"
    /\ UNCHANGED <<status, task_map, tasks, task_id, poisoned, map_owner,
                   status_v, cur, snap, wready, cdeps, c_ready, op, pre, ret,
                   histv>>

\* Lines 124-126: if is_ready { ready_q.push(task_arc) }
SubmitPush ==
    /\ cpc = "is_ready"
    /\ cdeps = <<>>
    /\ IF c_ready
       THEN /\ ready_q' = Append(ready_q, task_id)
            /\ \E S \in WakeSets(1) :
                 wpc' = [x \in Workers |-> IF x \in S THEN "pop" ELSE wpc[x]]
       ELSE UNCHANGED <<ready_q, wpc>>
    /\ cpc' = "insert"
    /\ UNCHANGED <<status, task_map, tasks, task_id, poisoned, map_owner,
                   status_v, cur, snap, wready, cdeps, c_ready, op, pre, ret,
                   histv>>

\* Lines 129-133: task_map.insert(deps.id, task_arc); Ok(())
SubmitInsert ==
    /\ cpc = "insert"
    /\ IF poisoned
       THEN /\ cpc' = "panicked"
            /\ UNCHANGED <<task_map, task_id, ret>>
       ELSE /\ task_map' = task_map \cup {task_id}
            /\ task_id' = task_id + 1
            /\ ret' = "Ok"
            /\ cpc' = "idle"
    /\ UNCHANGED <<status, ready_q, tasks, poisoned, map_owner, workerv, cdeps,
                   c_ready, op, pre, histv>>

\* run with the Shutdown arm of lines 173-176 treated like Stopped
RunRevives ==
    /\ cpc = "idle"
    /\ op' = "run"
    /\ pre' = status
    /\ status' = "Running"
    /\ cpc' = IF status = "Running" THEN "idle" ELSE "notify"
    /\ ret' = IF status = "Running" THEN "Ok" ELSE "pending"
    /\ UNCHANGED <<task_map, ready_q, tasks, task_id, poisoned, map_owner,
                   workerv, cdeps, c_ready, histv>>

\* Lines 161-169 and 173-176: run up to the store of Running
Run ==
    /\ cpc = "idle"
    /\ op' = "run"
    /\ pre' = status
    /\ status' = IF status = "Stopped" THEN "Running" ELSE status
    /\ cpc' = IF status = "Stopped" THEN "notify" ELSE "idle"
    /\ ret' = IF status = "Stopped" THEN "pending"
              ELSE IF status = "Running" THEN "Ok" ELSE "Err"
    /\ UNCHANGED <<task_map, ready_q, tasks, task_id, poisoned, map_owner,
                   workerv, cdeps, c_ready, histv>>

\* Lines 170-171: condvar.notify_all(); Ok(())
RunNotify ==
    /\ cpc = "notify"
    /\ wpc' = [x \in Workers |->
                 IF wpc[x] = "waiting" THEN "woken" ELSE wpc[x]]
    /\ ret' = "Ok"
    /\ cpc' = "idle"
    /\ UNCHANGED <<shared, status_v, cur, snap, wready, cdeps, c_ready, op, pre,
                   histv>>

\* stop without the store of line 183
StopKeepsStatus ==
    /\ cpc = "idle"
    /\ op' = "stop"
    /\ pre' = status
    /\ ret' = IF status = "Shutdown" THEN "Err" ELSE "Ok"
    /\ UNCHANGED <<status, task_map, ready_q, tasks, task_id, poisoned,
                   map_owner, workerv, cpc, cdeps, c_ready, histv>>

\* Lines 179-195: stop
Stop ==
    /\ cpc = "idle"
    /\ op' = "stop"
    /\ pre' = status
    /\ status' = IF status = "Running" THEN "Stopped" ELSE status
    /\ ret' = IF status = "Shutdown" THEN "Err" ELSE "Ok"
    /\ UNCHANGED <<task_map, ready_q, tasks, task_id, poisoned, map_owner,
                   workerv, cpc, cdeps, c_ready, histv>>

\* Lines 196-208: shutdown
Shutdown ==
    /\ cpc = "idle"
    /\ op' = "shutdown"
    /\ pre' = status
    /\ status' = "Shutdown"
    /\ ret' = IF status = "Shutdown" THEN "Err" ELSE "Ok"
    /\ UNCHANGED <<task_map, ready_q, tasks, task_id, poisoned, map_owner,
                   workerv, cpc, cdeps, c_ready, histv>>

Caller ==
    \/ \E deps \in DependLists : task_id < MaxTasks /\ Submit(deps)
    \/ SubmitDep
    \/ SubmitPush
    \/ SubmitInsert
    \/ Run
    \/ RunNotify
    \/ Stop
    \/ Shutdown

Next ==
    \/ \E w \in Workers : Worker(w)
    \/ \E w \in Workers : WSpurious(w)
    \/ Caller

Spec == Init /\ [][Next]_vars

\* ------------------------------------------------------------ properties
\* A worker has taken t and cloned it: its execution has begun
Started(t) ==
    \/ runs[t] > 0
    \/ \E w \in Workers :
          cur[w] = t /\ wpc[w] \in {"exec", "failed", "panicked"}

\* The execution of t has run to its end
Finished(t) == runs[t] > 0

\* A worker thread that has left its closure
Exited(w) == wpc[w] \in {"done", "failed", "panicked"}

\* C3: the status starts Stopped; run() from Stopped ends Running with Ok,
\* run() while Running is an Ok no-op, stop() from Running ends Stopped
\* with Ok, stop() while Stopped is an Ok no-op; run() and stop() produce
\* no other status.
RunStopTransitions ==
    /\ op = "new" => status = "Stopped"
    /\ (op = "run" /\ pre = "Stopped") =>
          /\ status = "Running"
          /\ ret = IF cpc = "idle" THEN "Ok" ELSE "pending"
    /\ (op = "run" /\ pre = "Running") => (status = "Running" /\ ret = "Ok")
    /\ (op = "stop" /\ pre = "Running") => (status = "Stopped" /\ ret = "Ok")
    /\ (op = "stop" /\ pre = "Stopped") => (status = "Stopped" /\ ret = "Ok")
    /\ (op \in {"run", "stop"} /\ pre # "Shutdown") =>
          status \in {"Running", "Stopped"}

\* C3 witness: stop() has just returned Ok from Running, after a run() that
\* workers have seen
RunThenStopReturned ==
    /\ op = "stop"
    /\ pre = "Running"
    /\ ret = "Ok"
    /\ status = "Stopped"
    /\ \E w \in Workers : status_v[w] = "Running"

\* C4: shutdown() from Running or Stopped sets Shutdown and returns Ok; once
\* the status is Shutdown no step changes it, and every later run(), stop()
\* and shutdown() returns an error.
ShutdownTerminal ==
    /\ [](/\ (op = "shutdown" /\ pre # "Shutdown") =>
                (status = "Shutdown" /\ ret = "Ok")
          /\ (op \in {"run", "stop", "shutdown"} /\ pre = "Shutdown") =>
                ret = "Err")
    /\ [][status = "Shutdown" => status' = "Shutdown"]_vars

\* C4 witness: a run() issued after shutdown() has returned its error
RunAfterShutdownReturned ==
    /\ status = "Shutdown"
    /\ op = "run"
    /\ pre = "Shutdown"
    /\ ret = "Err"

\* C5: when a shutdown() that found Running or Stopped has returned, every
\* worker thread has left its loop.
ShutdownJoinsWorkers ==
    (op = "shutdown" /\ pre # "Shutdown" /\ ret = "Ok") =>
        \A w \in Workers : Exited(w)

\* C6: a submit() issued while the status is Shutdown returns an error and
\* leaves the registry, every task's in_degree and next, and the ready
\* queue as they were.
SubmitAfterShutdownNoMutation ==
    [][(cpc = "idle" /\ status = "Shutdown" /\ op' = "submit"
            /\ callerv' # callerv) =>
          (/\ ret' = "Err"
           /\ cpc' = "idle"
           /\ UNCHANGED <<task_map, tasks, ready_q, task_id>>)]_vars

\* C6 witness: submit() has returned its error while the registry and the
\* queue hold a task
SubmitAfterShutdownReturned ==
    /\ status = "Shutdown"
    /\ op = "submit"
    /\ ret = "Err"
    /\ task_map # {}
    /\ ready_q # <<>>

\* C7: a worker removes a task from the ready queue only while the status
\* is Running.
DequeueOnlyWhileRunning ==
    [][\A w \in Workers :
          (wpc[w] = "pop" /\ wpc'[w] = "clone") => status = "Running"]_vars

\* A step that performs the completion update of a task
CompletionStep == \E t \in Ids : runs'[t] = runs[t] + 1

\* C8: the registry loses exactly one entry at each completion update and
\* at no other step, and gains exactly one at each submit() of a task with
\* no pending dependency.
CountConsistency ==
    [][/\ CompletionStep =>
             Cardinality(task_map') = Cardinality(task_map) - 1
       /\ Cardinality(task_map') < Cardinality(task_map) => CompletionStep
       /\ (cpc = "insert" /\ c_ready /\ cpc' = "idle") =>
             Cardinality(task_map') = Cardinality(task_map) + 1]_vars

\* ------------------------------------------------------- caller programs
\* The caller of Spec: at most MaxTasks tasks, any call at any time
\* (defined above as Caller).

\* A caller that submits X, then A and B depending on X, then T depending
\* on A and B, calls run() at any point and never stops or shuts down
DiamondDeps == <<<<>>, <<0>>, <<0>>, <<1, 2>>>>

OrderCaller ==
    \/ task_id < Len(DiamondDeps) /\ Submit(DiamondDeps[task_id + 1])
    \/ SubmitDep
    \/ SubmitPush
    \/ SubmitInsert
    \/ Run
    \/ RunNotify

OrderNext ==
    \/ \E w \in Workers : Worker(w)
    \/ \E w \in Workers : WSpurious(w)
    \/ OrderCaller

OrderSpec == Init /\ [][OrderNext]_vars

\* A caller shaped like the repository's run tests: it submits its tasks
\* while the manager is Stopped, calls run() once and makes no later call
BatchTasks == MaxTasks + 1

BatchCaller ==
    \/ \E deps \in DependLists :
          status = "Stopped" /\ task_id < BatchTasks /\ Submit(deps)
    \/ SubmitDep
    \/ SubmitPush
    \/ SubmitInsert
    \/ status = "Stopped" /\ Run
    \/ RunNotify

BatchNext ==
    \/ \E w \in Workers : Worker(w)
    \/ \E w \in Workers : WSpurious(w)
    \/ BatchCaller

\* Every thread that can take a step of its code eventually takes one: a
\* worker that is not blocked in a wait, the caller inside a call.  A
\* spurious wakeup is never owed.
Fairness ==
    /\ \A w \in Workers : WF_vars(Worker(w))
    /\ WF_vars(SubmitDep \/ SubmitPush \/ SubmitInsert \/ RunNotify)

BatchSpec == Init /\ [][BatchNext]_vars /\ Fairness

\* Some worker thread has ended on a failed execution
AnyFailed == \E w \in Workers : wpc[w] = "failed"

\* Every submitted task has been executed exactly once and no other has
AllRanOnce ==
    \A t \in Ids : runs[t] = IF t < task_id THEN 1 ELSE 0

\* C1: a task submitted with two dependencies that were both submitted
\* earlier and still unfinished is not started by any worker before both
\* have finished executing.
OrderingRespected ==
    \A t \in Ids :
        (Started(t) /\ Cardinality(unfinished[t]) = 2) =>
            \A d \in unfinished[t] : Finished(d)

\* C2: once run() has been issued, and with no stop or shutdown after it,
\* every submitted task is eventually executed and has its completion
\* update performed (an execution that fails is not held against this).
EveryTaskCompletes ==
    \A t \in Ids :
        (status = "Running" /\ t < task_id) ~> (Finished(t) \/ AnyFailed)

\* No submitted task has a registered dependent: each was pushed by submit
NoEdges ==
    \A t \in Ids : tasks[t].next = <<>>

\* C9: n tasks with no pending dependency are submitted while Stopped and
\* run() is called: eventually each has been executed exactly once and the
\* registry is empty (unless an execution fails).
FanOutCompletes ==
    (status = "Running" /\ NoEdges) ~>
        ((AllRanOnce /\ task_map = {}) \/ AnyFailed)

\* Task i (i >= 1) was submitted with the single dependency i - 1
ChainShape ==
    /\ task_id >= 2
    /\ \A t \in Ids :
          tasks[t].next = IF t + 1 < task_id THEN <<t + 1>> ELSE <<>>
    /\ \A t \in Ids :
          t < task_id => unfinished[t] = IF t = 0 THEN {} ELSE {t - 1}

\* C10: the chain 0 <- 1 <- ... <- n-1 is submitted while Stopped and run()
\* is called: task i never starts before task i-1 has finished, and
\* eventually every task has been executed and the registry is empty
\* (unless an execution fails).
ChainCompletes ==
    /\ [](ChainShape =>
             \A t \in Ids : (t >= 1 /\ Started(t)) => Finished(t - 1))
    /\ (status = "Running" /\ ChainShape) ~>
          ((AllRanOnce /\ task_map = {}) \/ AnyFailed)

\* --------------------------------------------- dependencies and registry
\* No worker has taken anything from the ready queue
NeverPopped ==
    /\ \A w \in Workers : cur[w] = NoTask
    /\ \A t \in Ids : runs[t] = 0

\* The task being submitted has been handed to the ready queue: it is in
\* it, or a worker holds it and waits for its lock
HandedToQueue(t) ==
    \/ t \in Range(ready_q)
    \/ \E w \in Workers : cur[w] = t /\ wpc[w] = "clone"

\* C11: in submit(), a dependency id that is not a key of the registry adds
\* nothing to the new task's in_degree and registers no edge; a task whose
\* dependency ids are all absent is appended to the ready queue and ends
\* the call with in_degree 0 and in the registry; n such submissions to a
\* manager that executes nothing leave registry size n and queue length n.
UnresolvedDepsSatisfied ==
    /\ [][(/\ cpc = "is_ready"
           /\ cdeps # <<>>
           /\ cdeps' = Tail(cdeps)
           /\ Head(cdeps) \notin task_map) =>
              (tasks' = tasks /\ c_ready' = c_ready)]_vars
    /\ [][(cpc = "is_ready" /\ cpc' = "insert" /\ c_ready) =>
              ready_q' = Append(ready_q, task_id)]_vars
    /\ [][(cpc = "insert" /\ cpc' = "idle" /\ c_ready) =>
              (/\ tasks'[task_id].in_degree = 0
               /\ task_id \in task_map'
               /\ HandedToQueue(task_id))]_vars
    /\ []((cpc = "idle" /\ NeverPopped /\ NoEdges) =>
              (Cardinality(task_map) = task_id /\ Len(ready_q) = task_id))

\* C11 witness: a manager that has executed nothing holds two tasks, the
\* latest submitted with a dependency id that the registry did not hold,
\* both in the registry and both in the queue
AbsentDepSubmitted ==
    /\ op = "submit"
    /\ ret = "Ok"
    /\ absent > 0
    /\ c_ready
    /\ NeverPopped
    /\ task_id = 2
    /\ task_map = {0, 1}
    /\ ready_q = <<0, 1>>
    /\ tasks[1].in_degree = 0

\* ------------------------------------------------------ failed executions
\* A worker thread ended on the failed execution of t
FailedOn(t) ==
    \E w \in Workers : wpc[w] = "failed" /\ cur[w] = t

\* C12: a failed execution is confined to its task: the worker that ran it
\* stays in its loop, so while the status is not Shutdown no worker thread
\* has ended on a failure.
FailureKeepsWorkerAlive ==
    status # "Shutdown" => \A w \in Workers : wpc[w] # "failed"

\* C13: when a task's execution has failed the completion update has still
\* been performed for it: it is out of the registry, and a dependent in its
\* next list that is still pending waits for some other dependency that has
\* neither finished nor failed.
FailedTaskReleasesDependents ==
    \A t \in Ids :
        FailedOn(t) =>
            /\ t \notin task_map
            /\ \A n \in Range(tasks[t].next) :
                  (n \in task_map /\ tasks[n].in_degree > 0) =>
                      \E d \in Ids \ {t} :
                          /\ n \in Range(tasks[d].next)
                          /\ runs[d] = 0
                          /\ ~FailedOn(d)

\* ------------------------------------------------------- the RPC adapter
\* server_n_client.rs lines 92-98: the "run" handler calls manager.run()
\* (manager.rs lines 161-169 and 173-176; its notify_all is RunNotify)
RpcRun ==
    /\ cpc = "idle"
    /\ op' = "rpc_run"
    /\ pre' = status
    /\ status' = IF status = "Stopped" THEN "Running" ELSE status
    /\ cpc' = IF status = "Stopped" THEN "notify" ELSE "idle"
    /\ ret' = IF status = "Stopped" THEN "pending"
              ELSE IF status = "Running" THEN "Ok" ELSE "Err"
    /\ UNCHANGED <<task_map, ready_q, tasks, task_id, poisoned, map_owner,
                   workerv, cdeps, c_ready, histv>>

\* server_n_client.rs lines 99-105: the "stop" handler calls manager.run()
\* as well
RpcStop ==
    /\ cpc = "idle"
    /\ op' = "rpc_stop"
    /\ pre' = status
    /\ status' = IF status = "Stopped" THEN "Running" ELSE status
    /\ cpc' = IF status = "Stopped" THEN "notify" ELSE "idle"
    /\ ret' = IF status = "Stopped" THEN "pending"
              ELSE IF status = "Running" THEN "Ok" ELSE "Err"
    /\ UNCHANGED <<task_map, ready_q, tasks, task_id, poisoned, map_owner,
                   workerv, cdeps, c_ready, histv>>

\* server_n_client.rs lines 74-86: "submit_task" carries a name and a
\* command and no dependency ids
RpcSubmitTask == task_id < MaxTasks /\ Submit(<<>>)

\* The requests a client of the adapter can send, one handled at a time
RpcCaller ==
    \/ RpcSubmitTask
    \/ SubmitPush
    \/ SubmitInsert
    \/ RpcRun
    \/ RpcStop
    \/ RunNotify

RpcNext ==
    \/ \E w \in Workers : Worker(w)
    \/ \E w \in Workers : WSpurious(w)
    \/ RpcCaller

RpcSpec == Init /\ [][RpcNext]_vars

\* C14: when a "stop" request has been handled the manager is Stopped,
\* whether the request found it Running or Stopped.
RpcStopStops ==
    (op = "rpc_stop" /\ cpc = "idle" /\ pre # "Shutdown") =>
        status = "Stopped"

\* --------------------------------------------------- edges and in-degrees
\* How many times t stands in d's next list: the edges d -> t that submit
\* registered
EdgeCount(d, t) ==
    Cardinality({i \in DOMAIN tasks[d].next : tasks[d].next[i] = t})

\* C15: no task is left stalled: a task that is in the registry with
\* in_degree > 0 after its submit() has returned has a dependency, found in
\* the registry during that call, that has not completed yet.
NoStalledTask ==
    \A t \in Ids :
        (t \in task_map /\ t < task_id /\ tasks[t].in_degree > 0) =>
            \E d \in Ids : EdgeCount(d, t) > 0 /\ runs[d] = 0

\* A worker has removed t from the ready queue
Taken(t) ==
    \/ runs[t] > 0
    \/ \E w \in Workers : cur[w] = t

\* C16: a task for which submit registered an edge from a dependency D (D
\* was in the registry, the task's in_degree was incremented and its id
\* appended to D's next list) is not removed from the ready queue before D
\* has finished executing and the completion updates have brought the
\* task's in_degree back to 0.
RegisteredEdgesRespected ==
    \A t \in Ids :
        Taken(t) =>
            /\ tasks[t].in_degree = 0
            /\ \A d \in Ids : EdgeCount(d, t) > 0 => Finished(d)

\* C16 witness: a worker holds the last task of the diamond, submitted with
\* both its dependencies in the registry, after both have finished
JoinTakenAfterBoth ==
    /\ \E w \in Workers : cur[w] = 3
    /\ EdgeCount(1, 3) = 1
    /\ EdgeCount(2, 3) = 1
    /\ Finished(1)
    /\ Finished(2)

\* C17: every task whose submit() has returned is a key of the registry
\* until the completion update that follows its own execution; a task that
\* was released into the ready queue and is not executed yet is still in
\* the registry.
RegistryLifetime ==
    \A t \in Ids :
        (t < task_id /\ ~Finished(t)) => t \in task_map

\* The edges registered for t from the dependencies in S, with multiplicity
RECURSIVE PendingEdges(_, _)
PendingEdges(S, t) ==
    IF S = {} THEN 0
    ELSE LET d == CHOOSE x \in S : TRUE
         IN EdgeCount(d, t) + PendingEdges(S \ {d}, t)

\* C18: whenever no submit() call is in progress (a completion update is a
\* single step), the in_degree of each submitted task that has not
\* completed equals the number of edges registered for it, counted with
\* multiplicity, whose dependency has not completed.
InDegreeInvariant ==
    cpc = "idle" =>
        \A t \in Ids :
            (t < task_id /\ ~Finished(t)) =>
                tasks[t].in_degree =
                    PendingEdges({d \in Ids : ~Finished(d)}, t)

\* Every submitted task but the first was submitted while task 0 was in
\* the registry and named it as a dependency
AllDependOnFirst ==
    /\ task_id >= 2
    /\ \A t \in 1..(task_id - 1) : EdgeCount(0, t) > 0

\* C19: every task handle in the ready queue has in_degree 0; a task
\* submitted with a dependency present in the registry is stored in the
\* registry and not pushed by submit, and enters the queue only at the
\* completion update that brings its in_degree to 0; tasks that all depend
\* on task 0, submitted to a manager that executes nothing, leave registry
\* size n and queue length 1.
QueueHoldsNoPending ==
    /\ [](\A t \in Range(ready_q) : tasks[t].in_degree = 0)
    /\ [][(cpc = "is_ready" /\ cpc' = "insert" /\ ~c_ready) =>
              ready_q' = ready_q]_vars
    /\ [][(cpc = "insert" /\ cpc' = "idle" /\ ~c_ready) =>
              (task_id \in task_map' /\ task_id \notin Range(ready_q'))]_vars
    /\ [][\A t \in Ids :
              (/\ t \in Range(ready_q') \ Range(ready_q)
               /\ \E d \in Ids : EdgeCount(d, t) > 0) =>
                  (/\ CompletionStep
                   /\ tasks[t].in_degree > 0
                   /\ tasks'[t].in_degree = 0)]_vars
    /\ []((cpc = "idle" /\ NeverPopped /\ AllDependOnFirst) =>
              (Cardinality(task_map) = task_id /\ Len(ready_q) = 1))

\* C19 witness: task 1, submitted with task 0 in the registry, is in the
\* queue after the completion update of task 0 released it
ReleasedTaskQueued ==
    /\ EdgeCount(0, 1) = 1
    /\ Finished(0)
    /\ 1 \in Range(ready_q)
    /\ tasks[1].in_degree = 0

\* ------------------------------------------------ the ready queue alone
\* SPMCQueue<T> used by its own clients: any thread pushes any value, and
\* the threads of Workers call pop again and again.  wpc[w] is "pop" while
\* w is about to lock block_queue and "popwait" while it is blocked in
\* cond_var.wait.
QueueInit ==
    /\ status = "Stopped"
    /\ task_map = {}
    /\ ready_q = <<>>
    /\ tasks = [i \in Ids |-> NewTask]
    /\ task_id = 0
    /\ poisoned = FALSE
    /\ wpc = [w \in Workers |-> "pop"]
    /\ status_v = [w \in Workers |-> "Stopped"]
    /\ cur = [w \in Workers |-> NoTask]
    /\ snap = [w \in Workers |-> <<>>]
    /\ cpc = "idle"
    /\ cdeps = <<>>
    /\ c_ready = TRUE
    /\ op = "new"
    /\ pre = "Stopped"
    /\ ret = "Ok"
    /\ runs = [i \in Ids |-> 0]
    /\ unfinished = [i \in Ids |-> {}]
    /\ absent = 0
    /\ pushed = <<>>
    /\ popped = <<>>
    /\ map_owner = NoTask
    /\ wready = [w \in Workers |-> <<>>]

\* push without the notify_one of line 23
QPushNoNotify(v) ==
    /\ Len(pushed) < MaxPush
    /\ ready_q' = Append(ready_q, v)
    /\ pushed' = Append(pushed, v)
    /\ UNCHANGED <<status, task_map, tasks, task_id, poisoned, map_owner,
                   workerv, callerv, runs, unfinished, absent, popped>>

\* spmc_queue.rs lines 17-25: push_back under the lock, then notify_one
QPush(v) ==
    /\ Len(pushed) < MaxPush
    /\ ready_q' = Append(ready_q, v)
    /\ pushed' = Append(pushed, v)
    /\ \E S \in WakeSets(1) :
         wpc' = [x \in Workers |-> IF x \in S THEN "pop" ELSE wpc[x]]
    /\ UNCHANGED <<status, task_map, tasks, task_id, poisoned, map_owner,
                   status_v, cur, snap, wready, callerv, runs, unfinished, absent,
                   popped>>

\* pop taking the newest entry (pop_back) instead of the oldest
QPopBack(w) ==
    /\ wpc[w] = "pop"
    /\ IF ready_q = <<>>
       THEN /\ wpc' = [wpc EXCEPT ![w] = "popwait"]
            /\ UNCHANGED <<ready_q, cur, popped>>
       ELSE /\ cur' = [cur EXCEPT ![w] = ready_q[Len(ready_q)]]
            /\ popped' = Append(popped, ready_q[Len(ready_q)])
            /\ ready_q' = SubSeq(ready_q, 1, Len(ready_q) - 1)
            /\ UNCHANGED wpc
    /\ UNCHANGED <<status, task_map, tasks, task_id, poisoned, map_owner,
                   status_v, snap, wready, callerv, runs, unfinished, absent,
                   pushed>>

\* spmc_queue.rs lines 26-41: lock; while the queue is empty wait on
\* cond_var; pop_front and return the entry
QPop(w) ==
    /\ wpc[w] = "pop"
    /\ IF ready_q = <<>>
       THEN /\ wpc' = [wpc EXCEPT ![w] = "popwait"]
            /\ UNCHANGED <<ready_q, cur, popped>>
       ELSE /\ cur' = [cur EXCEPT ![w] = Head(ready_q)]
            /\ popped' = Append(popped, Head(ready_q))
            /\ ready_q' = Tail(ready_q)
            /\ UNCHANGED wpc
    /\ UNCHANGED <<status, task_map, tasks, task_id, poisoned, map_owner,
                   status_v, snap, wready, callerv, runs, unfinished, absent,
                   pushed>>

QueueNext ==
    \/ \E v \in Ids : QPush(v)
    \/ \E w \in Workers : QPop(w)
    \/ \E w \in Workers : WSpurious(w)

QueueSpec == QueueInit /\ [][QueueNext]_vars

\* C20: the values pop has returned, in the order the pops took effect, are
\* a prefix of the values pushed, in the order the pushes took effect, and
\* the queue holds exactly the rest: pop returns nothing that was not
\* pushed and no pushed entry twice.
QueueFifo ==
    /\ Len(popped) <= Len(pushed)
    /\ \A i \in DOMAIN popped : popped[i] = pushed[i]
    /\ ready_q = SubSeq(pushed, Len(popped) + 1, Len(pushed))

\* C20 witness: three entries, the first two equal, have been pushed and
\* popped, and a consumer is blocked on the empty queue
FifoDrained ==
    /\ Len(popped) = 3
    /\ popped[1] = popped[2]
    /\ popped[3] # popped[1]
    /\ \E w \in Workers : wpc[w] = "popwait"
    /\ \E w \in Workers : cur[w] = popped[3]

\* A consumer that is not blocked takes its next step: a thread that holds
\* or can take the queue's mutex is scheduled.  A spurious wakeup is never
\* owed.
QueueFairness == \A w \in Workers : WF_vars(QPop(w))

QueueFairSpec == QueueSpec /\ QueueFairness

\* The consumers that are not blocked in cond_var.wait
QRunnable == {w \in Workers : wpc[w] # "popwait"}

\* C21: push never waits; entries pushed while consumers are blocked wake
\* as many of them as there are entries (all of them when fewer are
\* blocked), so the queue is never non-empty with every consumer blocked,
\* and every pushed entry is eventually returned by a pop.
NoLostWakeupInQueue ==
    /\ [](Len(pushed) < MaxPush => ENABLED (\E v \in Ids : QPush(v)))
    /\ [](Cardinality(QRunnable) >=
             IF Len(ready_q) < NWorkers THEN Len(ready_q) ELSE NWorkers)
    /\ \A n \in 1..MaxPush : (Len(pushed) >= n) ~> (Len(popped) >= n)

\* C21 witness: two entries were pushed and each consumer returned from pop
\* with one of them and blocks again on the empty queue
BothConsumersServed ==
    /\ Len(pushed) = 2
    /\ popped = pushed
    /\ cur[1] = pushed[1]
    /\ cur[2] = pushed[2]
    /\ pushed[1] # pushed[2]
    /\ wpc[1] = "popwait"
    /\ wpc[2] = "popwait"

\* ------------------------------------------------ lifecycle and workers
\* The manager with any caller, every runnable thread scheduled fairly
FairSpec == Spec /\ Fairness

\* C22: after shutdown() has set the status to Shutdown every worker
\* eventually leaves its loop and terminates, whether it was waiting for
\* Running, blocked in pop or executing a task.
WorkersExitAfterShutdown ==
    (status = "Shutdown") ~> (\A w \in Workers : Exited(w))

\* C23: once the status is Shutdown no worker removes a task from the
\* ready queue.
NoDequeueAfterShutdown ==
    [][status = "Shutdown" =>
          \A w \in Workers : ~(wpc[w] = "pop" /\ wpc'[w] = "clone")]_vars

\* C24: no worker is suspended in the lifecycle wait (condvar.wait of line
\* 65) while the status is Running and run() has issued its notify_all:
\* such a worker would stay suspended for as long as the status stays
\* Running.
NoWorkerSleepsThroughRun ==
    (status = "Running" /\ cpc # "notify") =>
        \A w \in Workers : wpc[w] # "waiting"

\* ------------------------------------------------ assertion and execution
\* How many times n stands in the list sq
CountIn(sq, n) ==
    Cardinality({i \in DOMAIN sq : sq[i] = n})

\* C25: whenever a completion update finds a dependent of the completed
\* task in the registry, the dependent's in_degree is at least the number
\* of decrements that update applies to it, so assert_ne!(in_degree, 0)
\* never fails, no thread panics and the registry's mutex is never
\* poisoned.
AssertionHolds ==
    /\ [](poisoned = FALSE)
    /\ [](cpc # "panicked" /\ \A w \in Workers : wpc[w] # "panicked")
    /\ [][\A w \in Workers :
              (wpc[w] = "exec" /\ runs'[cur[w]] = runs[cur[w]] + 1) =>
                  \A n \in Range(snap[w]) :
                      n \in task_map \ {cur[w]} =>
                          tasks[n].in_degree >= CountIn(snap[w], n)]_vars

\* C25 witness: the completion update of task 0 found task 1 in the
\* registry, decremented its in_degree from 1 to 0 and released it to a
\* worker
DependentDecremented ==
    /\ EdgeCount(0, 1) = 1
    /\ Finished(0)
    /\ tasks[1].in_degree = 0
    /\ \E w \in Workers : cur[w] = 1
    /\ poisoned = FALSE

\* How many workers hold t as the task they popped
Holders(t) ==
    Cardinality({w \in Workers : cur[w] = t})

\* C26: each task is pushed to the ready queue at most once, by its
\* submit() or by one completion update, and is dequeued and executed by
\* at most one worker, at most once: its entries in the queue, the workers
\* holding it and its finished executions never add up to more than one.
AtMostOnce ==
    \A t \in Ids :
        CountIn(ready_q, t) + Holders(t) + runs[t] <= 1

\* C26 witness: two tasks, the second released by the completion update of
\* the first, have each been executed once and the queue is empty
BothExecutedOnce ==
    /\ EdgeCount(0, 1) = 1
    /\ runs[0] = 1
    /\ runs[1] = 1
    /\ ready_q = <<>>
    /\ \A w \in Workers : cur[w] = NoTask

\* ---------------------------------------------------- self-dependency
\* A caller whose every task names its own id in its dependency list, that
\* calls run() at any point and never stops or shuts down
SelfCaller ==
    \/ \E deps \in DependLists :
          /\ task_id < MaxTasks
          /\ task_id \in Range(deps)
          /\ Submit(deps)
    \/ SubmitDep
    \/ SubmitPush
    \/ SubmitInsert
    \/ Run
    \/ RunNotify

SelfNext ==
    \/ \E w \in Workers : Worker(w)
    \/ \E w \in Workers : WSpurious(w)
    \/ SelfCaller

SelfSpec == Init /\ [][SelfNext]_vars

\* C27: submit() evaluates readiness before it inserts the task, so the
\* lookup of the task's own id changes nothing (no in_degree, no edge, the
\* manager is as after a lookup-free submit); if no other dependency id is
\* in the registry the task is enqueued by submit(); no task ever stands in
\* its own next list, and the completion update that follows its execution
\* removes it from the registry.
SelfDependencyIgnored ==
    /\ [](cpc \in {"is_ready", "insert"} => task_id \notin task_map)
    /\ [][(/\ cpc = "is_ready"
           /\ cdeps # <<>>
           /\ cdeps' = Tail(cdeps)
           /\ Head(cdeps) = task_id) =>
              UNCHANGED <<shared, workerv, c_ready>>]_vars
    /\ [][(cpc = "is_ready" /\ cpc' = "insert" /\ c_ready) =>
              ready_q' = Append(ready_q, task_id)]_vars
    /\ [](\A t \in Ids : EdgeCount(t, t) = 0)
    /\ [](\A t \in Ids : Finished(t) => t \notin task_map)

\* C27 witness: task 0, submitted with its own id as a dependency, was
\* enqueued by submit, executed once and removed from the registry, and
\* task 1, submitted the same way, is in the registry and held by a worker
SelfDependentExecuted ==
    /\ absent > 0
    /\ task_id = 2
    /\ runs[0] = 1
    /\ task_map = {1}
    /\ tasks[1].in_degree = 0
    /\ \E w \in Workers : cur[w] = 1 /\ wpc[w] = "exec"

\* ---------------------------------------------------- the lock discipline
\* submit and the completion update with every blocking lock request as a
\* step of its own.  The locks held across steps are task_map's mutex
\* (map_owner) and the write lock of the task being submitted
\* (WriteLocked); the queue's and the status's mutexes are taken and
\* released inside one step, with no other lock requested meanwhile.

\* Line 150: self.task_map.lock().unwrap() for the next dependency
LSubmitDepLock ==
    /\ cpc = "is_ready"
    /\ cdeps # <<>>
    /\ map_owner = NoTask
    /\ IF poisoned
       THEN cpc' = "panicked" /\ UNCHANGED map_owner
       ELSE cpc' = "maplocked" /\ map_owner' = CallerT
    /\ UNCHANGED <<status, task_map, ready_q, tasks, task_id, poisoned,
                   workerv, cdeps, c_ready, op, pre, ret, histv>>

\* Lines 150-157: the lookup; dep.write() when the id is found; the map
\* guard is dropped at the end of the if-let
LSubmitDep ==
    /\ cpc = "maplocked"
    /\ Head(cdeps) \in task_map => ~WriteLocked(Head(cdeps))
    /\ tasks' = IsReadyDep(tasks, task_map, task_id, Head(cdeps))
    /\ c_ready' = (c_ready /\ Head(cdeps) \notin task_map)
    /\ cdeps' = Tail(cdeps)
    /\ absent' = IF Head(cdeps) \in task_map THEN absent ELSE absent + 1
    /\ map_owner' = NoTask
    /\ cpc' = "is_ready"
    /\ UNCHANGED <<status, task_map, ready_q, task_id, poisoned, workerv, op,
                   pre, ret, runs, unfinished, qhist>>

\* Lines 129-132: task_map.lock().unwrap().insert(deps.id, task_arc)
LSubmitInsert ==
    /\ cpc = "insert"
    /\ map_owner = NoTask
    /\ IF poisoned
       THEN cpc' = "panicked" /\ UNCHANGED task_map
       ELSE cpc' = "unlock" /\ task_map' = task_map \cup {task_id}
    /\ UNCHANGED <<status, ready_q, tasks, task_id, poisoned, map_owner,
                   workerv, cdeps, c_ready, op, pre, ret, histv>>

\* submit taking task_map's mutex once more before it returns
LSubmitReturnNeedsMap ==
    /\ cpc = "unlock"
    /\ map_owner = NoTask
    /\ task_id' = task_id + 1
    /\ ret' = "Ok"
    /\ cpc' = "idle"
    /\ UNCHANGED <<status, task_map, ready_q, tasks, poisoned, map_owner,
                   workerv, cdeps, c_ready, op, pre, histv>>

\* Lines 133-134: Ok(()) and the end of the match arm, where the task's
\* write guard is dropped
LSubmitReturn ==
    /\ cpc = "unlock"
    /\ task_id' = task_id + 1
    /\ ret' = "Ok"
    /\ cpc' = "idle"
    /\ UNCHANGED <<status, task_map, ready_q, tasks, poisoned, map_owner,
                   workerv, cdeps, c_ready, op, pre, histv>>

\* Lines 78-82: the execution ends; task_map.lock().unwrap() and
\* map.remove(&task.id)
LMapLock(w) ==
    /\ wpc[w] = "exec"
    /\ map_owner = NoTask
    /\ runs' = [runs EXCEPT ![cur[w]] = @ + 1]
    /\ IF poisoned
       THEN /\ wpc' = [wpc EXCEPT ![w] = "panicked"]
            /\ UNCHANGED <<task_map, map_owner>>
       ELSE /\ wpc' = [wpc EXCEPT ![w] = "update"]
            /\ task_map' = task_map \ {cur[w]}
            /\ map_owner' = w
    /\ UNCHANGED <<status, ready_q, tasks, task_id, poisoned, status_v, cur,
                   snap, wready, callerv, unfinished, absent, qhist>>

\* Lines 85-95, one turn of the loop: the lookup and, when the dependent is
\* found, next.write(), the assertion, the decrement and the push; the
\* panic of a failed assertion unwinds and drops the map guard
LRelease(w) ==
    /\ wpc[w] = "update"
    /\ snap[w] # <<>>
    /\ Head(snap[w]) \in task_map => ~WriteLocked(Head(snap[w]))
    /\ LET r == Release(<<Head(snap[w])>>, task_map, tasks, ready_q,
                        wready[w])
       IN /\ tasks' = r.tasks
          /\ ready_q' = r.q
          /\ wready' = [wready EXCEPT ![w] = r.ready_list]
          /\ poisoned' = r.panic
          /\ map_owner' = IF r.panic THEN NoTask ELSE map_owner
          /\ \E S \in WakeSets(Len(r.q) - Len(ready_q)) :
               wpc' = [x \in Workers |->
                         IF x = w
                         THEN IF r.panic THEN "panicked" ELSE "update"
                         ELSE IF x \in S THEN "pop" ELSE wpc[x]]
    /\ snap' = [snap EXCEPT ![w] = Tail(@)]
    /\ UNCHANGED <<status, task_map, task_id, status_v, cur, callerv, histv>>

\* Lines 96-99: map.remove of every released dependent; the map guard is
\* dropped at the end of the block and the loop goes on
LMapUnlock(w) ==
    /\ wpc[w] = "update"
    /\ snap[w] = <<>>
    /\ task_map' = RemoveReady(task_map, wready[w])
    /\ map_owner' = NoTask
    /\ wpc' = [wpc EXCEPT ![w] = "pop"]
    /\ cur' = [cur EXCEPT ![w] = NoTask]
    /\ wready' = [wready EXCEPT ![w] = <<>>]
    /\ UNCHANGED <<status, ready_q, tasks, task_id, poisoned, status_v, snap,
                   callerv, histv>>

LockWorker(w) ==
    \/ WStart(w)
    \/ WLockWait(w)
    \/ WWake(w)
    \/ WPop(w)
    \/ WClone(w)
    \/ WExecFail(w)
    \/ LMapLock(w)
    \/ LRelease(w)
    \/ LMapUnlock(w)

\* A caller that submits and calls run() at any point
LockCaller ==
    \/ \E deps \in DependLists : task_id < MaxTasks /\ Submit(deps)
    \/ LSubmitDepLock
    \/ LSubmitDep
    \/ SubmitPush
    \/ LSubmitInsert
    \/ LSubmitReturn
    \/ Run
    \/ RunNotify

LockNext ==
    \/ \E w \in Workers : LockWorker(w)
    \/ \E w \in Workers : WSpurious(w)
    \/ LockCaller

\* A thread that is not blocked takes its next step; a spurious wakeup is
\* never owed
LockFairness ==
    /\ \A w \in Workers : WF_vars(LockWorker(w))
    /\ WF_vars(LSubmitDepLock \/ LSubmitDep \/ SubmitPush \/ LSubmitInsert
                 \/ LSubmitReturn \/ RunNotify)

LockSpec == Init /\ [][LockNext]_vars /\ LockFairness

Threads == Workers \cup {CallerT}

\* The thread holding the lock that thread a is blocked on, or NoTask when
\* a is not blocked on a lock
WaitsOn(a) ==
    IF a = CallerT
    THEN IF /\ \/ cpc = "is_ready" /\ cdeps # <<>>
               \/ cpc = "insert"
            /\ map_owner # NoTask
         THEN map_owner
         ELSE IF /\ cpc = "maplocked"
                 /\ Head(cdeps) \in task_map
                 /\ WriteLocked(Head(cdeps))
         THEN CallerT
         ELSE NoTask
    ELSE IF wpc[a] = "exec" /\ map_owner # NoTask
         THEN map_owner
         ELSE IF \/ wpc[a] = "clone" /\ WriteLocked(cur[a])
                 \/ /\ wpc[a] = "update"
                    /\ snap[a] # <<>>
                    /\ Head(snap[a]) \in task_map
                    /\ WriteLocked(Head(snap[a]))
         THEN CallerT
         ELSE NoTask

\* The thread reached from a by following WaitsOn k times
RECURSIVE WaitChain(_, _)
WaitChain(a, k) ==
    IF k = 0 \/ a = NoTask THEN a
    ELSE WaitChain(WaitsOn(a), k - 1)

\* C28: no set of threads (a submit() call and a worker, or workers) wait
\* in a cycle, each for a lock held by the next, and every submit() call
\* returns.
NoLockDeadlock ==
    /\ [](\A a \in Threads :
             \A k \in 1..(NWorkers + 1) : WaitChain(a, k) # a)
    /\ [](cpc # "panicked")
    /\ (cpc # "idle") ~> (cpc = "idle")

\* C28 witness: a worker holds task_map's mutex and is blocked on the write
\* lock of a dependent that submit() has inserted and still holds
WorkerWaitsForSubmit ==
    /\ cpc = "unlock"
    /\ \E w \in Workers :
          /\ map_owner = w
          /\ WaitsOn(w) = CallerT
          /\ snap[w] # <<>>
          /\ Head(snap[w]) = task_id

====
